---- MODULE Spec2Model ----
(***************************************************************************)
(* Message ingestion of whatsapp-web-backend: the batch script             *)
(* scripts/processPayloads.mjs, the legacy script import.js and the HTTP   *)
(* routes of server.js, all writing one MongoDB collection of Message      *)
(* documents (models/Message.js), and the socket.io sink the routes emit   *)
(* to.  Each await of the code is a step boundary: one action is the store *)
(* command awaited together with the synchronous code before it.           *)
(***************************************************************************)
EXTENDS Integers, Sequences, FiniteSets, Bags, TLC

\* A JavaScript value that is absent or falsy: undefined, null, "".
None == "none"

\* ---------------------------------------------------------------- bounds
\* Inputs the system takes in one run (at most): the JSON files the scripts
\* find in payloads/, the entries of these files (messages and statuses)
\* and the HTTP requests, all together.
MaxInputs == 4
\* HTTP requests the server takes in one run (at most), among these inputs.
MaxRequests == 2
\* The instant new Date() returns.  Numbers of time are written in millions
\* (TLC's integers are 32 bits wide): 1800000 is 1 800 000 000 000 ms.
Now == 1800000
\* Entries of a webhook envelope and changes of an entry (at most).
MaxEntries == 2
MaxChanges == 2

\* ------------------------------------------------------------ input sets
\* A webhook timestamp in unix seconds, written in millions: 1 700 000 000.
\* 0 is a timestamp that is absent (falsy).
TsSec == 1700

\* Raw message entries of a payload as processFile reads them: m.id, m.from,
\* m.context.id, m.text.body, m.timestamp.
RawMessages ==
    [id: {None, "m1", "m2"}, from: {"w1"}, context: {None}, text: {"a"}, timestamp: {TsSec}]
    \cup [id: {"m1"}, from: {None, "w1"}, context: {"m2"}, text: {"b"}, timestamp: {0}]

\* Raw status entries of a payload as processFile reads them: s.id,
\* s.meta_msg_id, s.status.
RawStatuses ==
    [id: {"m1", "m2"}, meta_msg_id: {None}, status: {"sent", "delivered", "read"}]
    \cup [id: {"m2"}, meta_msg_id: {None}, status: {None, "failed"}]
    \cup [id: {None}, meta_msg_id: {None, "m2"}, status: {"read"}]

\* ------------------------------------------------------------- the store
\* The messages collection: documents in insertion order (the order a
\* collection scan, hence findOne, visits them).
VARIABLES store

\* How many inputs have been taken so far (bounded by MaxInputs).
VARIABLES used

\* status enum of the schema.
StatusEnum == {"sent", "delivered", "read"}

\* A lookup that settles for the first document of the collection when no
\* document matches: what the properties of unmatched updates must exclude.
FindOneOrFirst(st, f, v) ==
    IF \E i \in 1..Len(st) : st[i][f] = v
    THEN CHOOSE i \in 1..Len(st) : st[i][f] = v /\ \A j \in 1..(i - 1) : st[j][f] # v
    ELSE IF Len(st) > 0 THEN 1 ELSE 0

\* A lookup that tries meta_msg_id before the field asked for.
FindOneMetaFirst(st, f, v) ==
    IF \E i \in 1..Len(st) : st[i].meta_msg_id = v
    THEN CHOOSE i \in 1..Len(st) :
            st[i].meta_msg_id = v /\ \A j \in 1..(i - 1) : st[j].meta_msg_id # v
    ELSE IF \E i \in 1..Len(st) : st[i][f] = v
    THEN CHOOSE i \in 1..Len(st) : st[i][f] = v /\ \A j \in 1..(i - 1) : st[j][f] # v
    ELSE 0

\* Index of the first document whose field f equals v, 0 when there is none.
FindOne(st, f, v) ==
    IF \E i \in 1..Len(st) : st[i][f] = v
    THEN CHOOSE i \in 1..Len(st) : st[i][f] = v /\ \A j \in 1..(i - 1) : st[j][f] # v
    ELSE 0

\* A collection without the unique index: every insert is accepted.
NoUniqueIndex(st, id) == TRUE

\* The unique index on msg_id: may a document with this msg_id be inserted.
UniqueOk(st, id) == \A i \in 1..Len(st) : st[i].msg_id # id

\* The place of a status in the order sent, delivered, read (0: not in it).
Rank(status) ==
    IF status = "sent" THEN 1 ELSE IF status = "delivered" THEN 2
    ELSE IF status = "read" THEN 3 ELSE 0

\* An update of status that only moves forward in that order.
SetStatusForward(st, i, status) ==
    IF Rank(status) > Rank(st[i].status) THEN [st EXCEPT ![i].status = status] ELSE st

\* { $set: { status } } on document i; mongoose drops an undefined value from
\* the update and runs no validators on updates.
SetStatus(st, i, status) ==
    IF status = None THEN st ELSE [st EXCEPT ![i].status = status]

\* asDate of a number: no timestamp is the current time, a number up to 1e12
\* (written in millions: 1000000) is seconds, a larger one milliseconds.
asDate(ts) ==
    IF ts = 0 THEN Now
    ELSE IF ts > 1000000 THEN ts ELSE ts * 1000

\* A guard that looks at wa_id only.
upsertMessageDropsNoWaId(a) == a.wa_id = None

\* upsertMessage's guard: the input is dropped.
upsertMessageDrops(a) == a.wa_id = None \/ a.msg_id = None

\* upsertMessage's default parameters.
upsertMessageArgs(a) ==
    [a EXCEPT !.status = IF a.status = None THEN "sent" ELSE a.status,
              !.profileName = IF a.profileName = None THEN "Unknown" ELSE a.profileName]

\* The document an upsert by upsertMessage inserts: $setOnInsert and $set.
upsertMessageInsert(a) ==
    [wa_id |-> a.wa_id, msg_id |-> a.msg_id, meta_msg_id |-> a.meta_msg_id,
     text |-> IF a.text = None THEN "" ELSE a.text,
     timestamp |-> asDate(a.timestamp), status |-> a.status,
     profileName |-> a.profileName, fromSelf |-> a.fromSelf]

\* An update that sets every field of the input ($set in place of
\* $setOnInsert).
upsertMessageSetsAll(st, i, a) == [st EXCEPT ![i] = upsertMessageInsert(a)]

\* What upsertMessage's update does to a document that matches { msg_id }.
upsertMessageUpdate(st, i, a) == SetStatus(st, i, a.status)

\* ------------------------------------- scripts/processPayloads.mjs: main
\* The run of the batch script: where it is (pc), whether mongoose is
\* connected, the JSON files found and the one being processed, the
\* messages (nm) and statuses (ns) of that file still to process, the
\* arguments of the call in hand (cur), the contact's wa_id of the file
\* (fbWa), the files that failed and those done.  A payload's entries are
\* drawn as the loops reach them.  want, pat, okIds and did record what
\* happened, for the properties: the ids of the valid messages of the file
\* read last; how far that file shows a valid message, then one without id,
\* then a valid one (0 to 3); the ids of the valid messages of the files
\* done; how the last call of upsertMessage or applyStatus ended (skip,
\* update, insert, E11000; drop, msg_id, meta_msg_id, nomatch).  ret is the
\* value that call returned.
VARIABLES bat

\* processFile's arguments to upsertMessage for the raw message m.
MessageArgs(m, fallbackWaId) ==
    [wa_id |-> IF m.from # None THEN m.from ELSE fallbackWaId,
     msg_id |-> m.id, meta_msg_id |-> m.context, text |-> m.text,
     timestamp |-> m.timestamp, status |-> "sent",
     profileName |-> "Unknown", fromSelf |-> FALSE]

\* Arguments to applyStatus that pass meta_msg_id alone as metaMsgId.
StatusArgsNoFallback(s) ==
    [id |-> IF s.id # None THEN s.id ELSE s.meta_msg_id,
     metaMsgId |-> s.meta_msg_id,
     status |-> s.status]

\* processFile's arguments to applyStatus for the raw status s.
StatusArgs(s) ==
    [id |-> IF s.id # None THEN s.id ELSE s.meta_msg_id,
     metaMsgId |-> IF s.meta_msg_id # None THEN s.meta_msg_id ELSE s.id,
     status |-> s.status]

\* applyStatus's guard: the input is dropped.
applyStatusDrops(a) == a.id = None /\ a.metaMsgId = None

\* The record of what the file has shown, after the message with arguments a.
Seen(b, a) ==
    IF ~upsertMessageDrops(a)
    THEN [b EXCEPT !.want = @ \cup {a.msg_id},
                   !.pat = IF @ = 0 THEN 1 ELSE IF @ = 2 THEN 3 ELSE @]
    ELSE IF a.msg_id = None /\ b.pat = 1 THEN [b EXCEPT !.pat = 2]
    ELSE b

\* main's for loop: the next file, or the end of the try block.
NextFile(b) ==
    IF b.idx < b.files
    THEN [b EXCEPT !.pc = "file", !.idx = b.idx + 1, !.nm = 0, !.ns = 0, !.cur = None]
    ELSE [b EXCEPT !.pc = "finally", !.nm = 0, !.ns = 0, !.cur = None]

\* An error of processFile that leaves main: nothing more is done.
FileFailedLeaves(b) == [b EXCEPT !.pc = "done", !.failed = @ \cup {b.idx}]

\* main's catch: the file is reported failed, the loop goes on.
FileFailed(b) == NextFile([b EXCEPT !.failed = @ \cup {b.idx}])

\* processFile's loops: on to the next entry, or processFile returns.
Continue(b) ==
    IF b.nm = 0 /\ b.ns = 0
    THEN NextFile([b EXCEPT !.ok = @ \cup {b.idx}, !.okIds = @ \cup b.want])
    ELSE [b EXCEPT !.pc = "run", !.cur = None]

\* What upsertMessage and applyStatus return: neither has a return
\* statement, the caller gets undefined whatever was matched.
Returned(op) == None

\* The call of upsertMessage or applyStatus in hand returns, having done op.
Returns(b, op) ==
    Continue([b EXCEPT !.did = op, !.ret = Returned(op),
                       !.nm = IF @ > 0 THEN @ - 1 ELSE @,
                       !.ns = IF b.nm > 0 THEN @ ELSE @ - 1])

BatchConnect ==
    /\ bat.pc = "start"
    /\ bat' = [bat EXCEPT !.pc = "readdir", !.conn = TRUE]
    /\ UNCHANGED <<store, used>>

\* readdir and the filter on .json: n files; none is main's early return.
BatchReaddir ==
    /\ bat.pc = "readdir"
    /\ \E n \in 0..(MaxInputs - used) :
          /\ bat' = NextFile([bat EXCEPT !.files = n, !.idx = 0])
          /\ used' = used + n
    /\ UNCHANGED store

\* processFile up to its first await: JSON.parse throws, or the payload
\* holds nm messages and ns statuses.
BatchProcessFile ==
    /\ bat.pc = "file"
    /\ \/ /\ bat' = FileFailed([bat EXCEPT !.want = {}, !.pat = 0, !.did = None])
          /\ UNCHANGED used
       \/ \E nm \in 0..(MaxInputs - used), fb \in {None} :
            \E ns \in 0..(MaxInputs - used - nm) :
               /\ bat' = Continue([bat EXCEPT !.nm = nm, !.ns = ns, !.fbWa = fb,
                                              !.want = {}, !.pat = 0, !.did = None])
               /\ used' = used + nm + ns
    /\ UNCHANGED store

\* upsertMessage for the next message m: dropped by the guard, or updateOne
\* with upsert finds the document and updates it, or finds none.
BatchUpsertMessageOf(m) ==
    /\ bat.pc = "run" /\ bat.nm > 0
    /\ LET a == upsertMessageArgs(MessageArgs(m, bat.fbWa))
           i == FindOne(store, "msg_id", a.msg_id)
           b == Seen(bat, a)
       IN  \/ /\ upsertMessageDrops(a)
              /\ bat' = Returns(b, "skip")
              /\ UNCHANGED store
           \/ /\ ~upsertMessageDrops(a) /\ i # 0
              /\ store' = upsertMessageUpdate(store, i, a)
              /\ bat' = Returns(b, "update")
           \/ /\ ~upsertMessageDrops(a) /\ i = 0
              /\ bat' = [b EXCEPT !.pc = "insert", !.cur = a]
              /\ UNCHANGED store
    /\ UNCHANGED used

BatchUpsertMessage == \E m \in RawMessages : BatchUpsertMessageOf(m)

\* The insert of an upsert that found no document.  When another writer has
\* inserted the msg_id meanwhile the unique index refuses it: the server
\* retries the upsert as an update, or the command fails with E11000 and
\* the error leaves processFile.
BatchUpsertInsert ==
    /\ bat.pc = "insert"
    /\ LET a == bat.cur
           i == FindOne(store, "msg_id", a.msg_id)
       IN  \/ /\ UniqueOk(store, a.msg_id)
              /\ store' = Append(store, upsertMessageInsert(a))
              /\ bat' = Returns(bat, "insert")
           \/ /\ ~UniqueOk(store, a.msg_id)
              /\ store' = upsertMessageUpdate(store, i, a)
              /\ bat' = Returns(bat, "update")
           \/ /\ ~UniqueOk(store, a.msg_id)
              /\ bat' = FileFailed([bat EXCEPT !.did = "E11000"])
              /\ UNCHANGED store
    /\ UNCHANGED used

\* A loop over the statuses that does not wait for the loop over the messages.
StatusesTurnEarly(b) == b.pc = "run" /\ b.ns > 0

\* processFile is at its loop over the statuses: the loop over the messages
\* has ended.
StatusesTurn(b) == b.pc = "run" /\ b.nm = 0 /\ b.ns > 0

\* applyStatus for the next status s, once the messages are done: dropped
\* by the guard, or findOneAndUpdate by msg_id.
BatchApplyStatusOf(s) ==
    /\ StatusesTurn(bat)
    /\ LET a == StatusArgs(s)
           i == FindOne(store, "msg_id", a.id)
       IN  \/ /\ applyStatusDrops(a)
              /\ bat' = Returns(bat, "drop")
              /\ UNCHANGED store
           \/ /\ ~applyStatusDrops(a) /\ i # 0
              /\ store' = SetStatus(store, i, a.status)
              /\ bat' = Returns(bat, "msg_id")
           \/ /\ ~applyStatusDrops(a) /\ i = 0
              /\ bat' = IF a.metaMsgId # None
                        THEN [bat EXCEPT !.pc = "fallback", !.cur = a]
                        ELSE Returns(bat, "nomatch")
              /\ UNCHANGED store
    /\ UNCHANGED used

BatchApplyStatus == \E s \in RawStatuses : BatchApplyStatusOf(s)

\* applyStatus's second findOneAndUpdate, by meta_msg_id.
BatchApplyStatusFallback ==
    /\ bat.pc = "fallback"
    /\ LET a == bat.cur
           i == FindOne(store, "meta_msg_id", a.metaMsgId)
       IN  /\ store' = IF i # 0 THEN SetStatus(store, i, a.status) ELSE store
           /\ bat' = Returns(bat, IF i # 0 THEN "meta_msg_id" ELSE "nomatch")
    /\ UNCHANGED used

\* main's finally.
BatchDisconnect ==
    /\ bat.pc = "finally"
    /\ bat' = [bat EXCEPT !.pc = "done", !.conn = FALSE]
    /\ UNCHANGED <<store, used>>

BatchInit ==
    [pc |-> "start", conn |-> FALSE, files |-> 0, idx |-> 0, nm |-> 0, ns |-> 0,
     cur |-> None, fbWa |-> None, failed |-> {}, ok |-> {},
     want |-> {}, pat |-> 0, okIds |-> {}, did |-> None, ret |-> None]

\* ------------------------------------------------------------- import.js
\* The run of the legacy script: as bat, without a record of failed files
\* (an error ends the run: aborted).
VARIABLES imp

\* Raw message entries as importPayloads collects them: m.id, the wa_id of
\* the change's contacts[0], m.text.body, m.timestamp.
LegacyMessages == [id: {None, "m1"}, wa_id: {None, "w1"}, text: {"a"}, timestamp: {TsSec}]

\* Raw status entries as importPayloads collects them: st.id, st.status.
LegacyStatuses == [id: {None, "m1"}, status: {"read"}]

\* importPayloads's doc for the raw message m.
ImportDoc(m) ==
    [wa_id |-> m.wa_id, msg_id |-> m.id, text |-> m.text,
     timestamp |-> m.timestamp * 1000, status |-> "sent", meta_msg_id |-> m.id]

\* { $set: doc } on document i: every field of doc that is not undefined.
ImportUpdate(st, i, d) ==
    [st EXCEPT ![i] = [@ EXCEPT !.wa_id = IF d.wa_id = None THEN @ ELSE d.wa_id,
                                !.msg_id = IF d.msg_id = None THEN @ ELSE d.msg_id,
                                !.meta_msg_id = IF d.meta_msg_id = None THEN @ ELSE d.meta_msg_id,
                                !.text = d.text, !.timestamp = d.timestamp,
                                !.status = d.status]]

\* The document the upsert of importPayloads inserts: the filter's msg_id,
\* the fields of doc and the schema's defaults.
ImportInsert(d) ==
    [wa_id |-> d.wa_id, msg_id |-> d.msg_id, meta_msg_id |-> d.meta_msg_id,
     text |-> d.text, timestamp |-> d.timestamp, status |-> d.status,
     profileName |-> "Unknown", fromSelf |-> FALSE]

\* The for loop over the files: the next file, or the end of the loop.
ImportNextFile(b) ==
    IF b.idx < b.files
    THEN [b EXCEPT !.pc = "file", !.idx = b.idx + 1, !.nm = 0, !.ns = 0, !.cur = None]
    ELSE [b EXCEPT !.pc = "finally", !.nm = 0, !.ns = 0, !.cur = None]

\* An error leaves importPayloads: the catch of its caller disconnects.
ImportAbort(b) ==
    [b EXCEPT !.pc = "done", !.conn = FALSE, !.aborted = TRUE, !.nm = 0, !.ns = 0,
              !.cur = None]

\* The loops over one file's messages and statuses: on to the next entry, or
\* the file is processed.
ImportContinue(b) ==
    IF b.nm = 0 /\ b.ns = 0
    THEN ImportNextFile([b EXCEPT !.ok = @ \cup {b.idx}])
    ELSE [b EXCEPT !.pc = "run", !.cur = None]

\* connect, then readdirSync and the filter on .json: n files.
ImportConnect ==
    /\ imp.pc = "start"
    /\ \E n \in 0..(MaxInputs - used) :
          /\ imp' = ImportNextFile([imp EXCEPT !.conn = TRUE, !.files = n, !.idx = 0])
          /\ used' = used + n
    /\ UNCHANGED store

\* One file up to the first await: JSON.parse throws, or the collected
\* messages and statuses number nm and ns.
ImportFile ==
    /\ imp.pc = "file"
    /\ \/ /\ imp' = ImportAbort(imp)
          /\ UNCHANGED used
       \/ \E nm \in 0..(MaxInputs - used) :
            \E ns \in 0..(MaxInputs - used - nm) :
               /\ imp' = ImportContinue([imp EXCEPT !.nm = nm, !.ns = ns])
               /\ used' = used + nm + ns
    /\ UNCHANGED store

\* updateOne with upsert for the next message m: the document is found and
\* set, or none is found.
ImportUpsert ==
    /\ imp.pc = "run" /\ imp.nm > 0
    /\ \E m \in LegacyMessages :
        LET d == ImportDoc(m)
            i == FindOne(store, "msg_id", d.msg_id)
        IN  \/ /\ i # 0
               /\ store' = ImportUpdate(store, i, d)
               /\ imp' = ImportContinue([imp EXCEPT !.nm = @ - 1])
            \/ /\ i = 0
               /\ imp' = [imp EXCEPT !.pc = "insert", !.cur = d]
               /\ UNCHANGED store
    /\ UNCHANGED used

\* The insert of that upsert, the unique index as for the batch script.
ImportUpsertInsert ==
    /\ imp.pc = "insert"
    /\ LET d == imp.cur
           i == FindOne(store, "msg_id", d.msg_id)
       IN  \/ /\ UniqueOk(store, d.msg_id)
              /\ store' = Append(store, ImportInsert(d))
              /\ imp' = ImportContinue([imp EXCEPT !.nm = @ - 1])
           \/ /\ ~UniqueOk(store, d.msg_id)
              /\ store' = ImportUpdate(store, i, d)
              /\ imp' = ImportContinue([imp EXCEPT !.nm = @ - 1])
           \/ /\ ~UniqueOk(store, d.msg_id)
              /\ imp' = ImportAbort(imp)
              /\ UNCHANGED store
    /\ UNCHANGED used

\* The next status st, once the messages are done: skipped without id, else
\* updateOne by msg_id, without upsert.
ImportStatusOf(st) ==
    /\ imp.pc = "run" /\ imp.nm = 0 /\ imp.ns > 0
    /\ LET i == FindOne(store, "msg_id", st.id)
       IN  /\ store' = IF st.id # None /\ i # 0 THEN SetStatus(store, i, st.status)
                       ELSE store
           /\ imp' = ImportContinue([imp EXCEPT !.ns = @ - 1])
    /\ UNCHANGED used

ImportStatus == \E st \in LegacyStatuses : ImportStatusOf(st)

\* The disconnect that ends importPayloads.
ImportDisconnect ==
    /\ imp.pc = "finally"
    /\ imp' = [imp EXCEPT !.pc = "done", !.conn = FALSE]
    /\ UNCHANGED store
    /\ UNCHANGED used

ImportInit ==
    [pc |-> "start", conn |-> FALSE, files |-> 0, idx |-> 0, nm |-> 0, ns |-> 0,
     cur |-> None, ok |-> {}, aborted |-> FALSE]

\* --------------------------------------------------------------- server.js
\* The requests the server has received, in order: where the handler is
\* (new: not received, await: its store command has run and its
\* continuation has not, done: answered) and, while it waits, the route,
\* what the store command gave (out: doc, null, error) and the msg_id and
\* status concerned.  resp is the HTTP status of the response sent last
\* (0: none yet).  sink is what io.emit has handed to socket.io: a bag of
\* events.
VARIABLES reqs, resp, sink

\* Bodies of POST /messages.
PostBodies ==
    [wa_id: {"w1"}, text: {"a"}, msg_id: {None, "m1"}, status: {None}, timestamp: {0}]
    \cup [wa_id: {"w1"}, text: {"a"}, msg_id: {"m1"}, status: {"read", "failed"}, timestamp: {0}]
    \cup [wa_id: {None, "w1"}, text: {None}, msg_id: {"m1"}, status: {None}, timestamp: {0}]

\* Bodies of POST /delivered and POST /read.
StatusBodies == [msg_id: {None, "m1"}, wa_id: {None, "w1", "w2"}]

\* randomUUID(): an id that no document has, the first such of u1, u2, ...
Uuid(st) ==
    LET us == <<"u1", "u2", "u3", "u4", "u5", "u6", "u7", "u8">>
        k == CHOOSE n \in 1..Len(us) :
                /\ \A i \in 1..Len(st) : st[i].msg_id # us[n]
                /\ \A j \in 1..(n - 1) : \E i \in 1..Len(st) : st[i].msg_id = us[j]
    IN  us[k]

\* The document POST /messages hands to MessageModel.create.
PostDoc(r, body) ==
    [wa_id |-> body.wa_id,
     msg_id |-> IF body.msg_id # None THEN body.msg_id ELSE Uuid(store),
     meta_msg_id |-> None, text |-> body.text,
     timestamp |-> IF body.timestamp # 0 THEN body.timestamp ELSE Now,
     status |-> IF body.status # None THEN body.status ELSE "sent",
     profileName |-> "Unknown", fromSelf |-> FALSE]

\* The validators create runs: the required fields and the status enum.
Validates(d) ==
    /\ d.wa_id # None /\ d.msg_id # None
    /\ d.status \in StatusEnum

\* Index of the document findOneAndUpdate of the status routes matches:
\* { msg_id } and, when the body gives one, { wa_id }; 0 when there is none.
FindForStatus(st, body) ==
    IF \E i \in 1..Len(st) :
          st[i].msg_id = body.msg_id /\ (body.wa_id = None \/ st[i].wa_id = body.wa_id)
    THEN CHOOSE i \in 1..Len(st) :
          /\ st[i].msg_id = body.msg_id /\ (body.wa_id = None \/ st[i].wa_id = body.wa_id)
          /\ \A j \in 1..(i - 1) :
                ~(st[j].msg_id = body.msg_id /\ (body.wa_id = None \/ st[j].wa_id = body.wa_id))
    ELSE 0

\* The next request is the first that has not been received; there is one
\* while the inputs and the requests of the run are not used up.
Arrives(r) ==
    /\ used < MaxInputs
    /\ reqs[r].pc = "new" /\ \A q \in 1..(r - 1) : reqs[q].pc # "new"

\* A request that is not waiting: not received, or answered.
Idle(pc) ==
    [pc |-> pc, route |-> None, out |-> None, msg_id |-> None, status |-> None]

\* A handler that takes every outcome of its store command for a document.
AwaitAsDoc(r, route, out, msg_id, status) ==
    [reqs EXCEPT ![r] = [pc |-> "await", route |-> route, out |-> "doc",
                         msg_id |-> msg_id, status |-> status]]

\* The handler of request r waits for its store command.
Await(r, route, out, msg_id, status) ==
    [reqs EXCEPT ![r] = [pc |-> "await", route |-> route, out |-> out,
                         msg_id |-> msg_id, status |-> status]]

\* res.status(code).json(...) of request r.
Respond(r, route, out, code) ==
    /\ reqs' = [reqs EXCEPT ![r] = Idle("done")]
    /\ resp' = code

\* POST /messages up to its await: 400 without wa_id or text, else create
\* validates the document and inserts it, or throws.
PostMessages(r) ==
    /\ Arrives(r)
    /\ \E body \in PostBodies :
        LET d == PostDoc(r, body)
        IN  \/ /\ body.wa_id = None \/ body.text = None
               /\ Respond(r, "messages", None, 400)
               /\ UNCHANGED store
            \/ /\ body.wa_id # None /\ body.text # None
               /\ Validates(d) /\ UniqueOk(store, d.msg_id)
               /\ store' = Append(store, d)
               /\ reqs' = Await(r, "messages", "doc", d.msg_id, d.status)
               /\ UNCHANGED resp
            \/ /\ body.wa_id # None /\ body.text # None
               /\ ~(Validates(d) /\ UniqueOk(store, d.msg_id))
               /\ reqs' = Await(r, "messages", "error", d.msg_id, None)
               /\ UNCHANGED <<store, resp>>
    /\ used' = used + 1
    /\ UNCHANGED sink

\* The rest of POST /messages: io.emit and 201; the catch answers 500 when
\* create has thrown and when io.emit throws.
PostMessagesReply(r) ==
    /\ reqs[r].pc = "await" /\ reqs[r].route = "messages"
    /\ \/ /\ reqs[r].out = "doc"
          /\ sink' = sink (+) SetToBag({[ev |-> "message:new", msg_id |-> reqs[r].msg_id,
                                          status |-> reqs[r].status]})
          /\ Respond(r, "messages", "doc", 201)
       \/ /\ reqs[r].out = "doc"
          /\ Respond(r, "messages", "doc", 500)
          /\ UNCHANGED sink
       \/ /\ reqs[r].out = "error"
          /\ Respond(r, "messages", "error", 500)
          /\ UNCHANGED sink
    /\ UNCHANGED <<store, used>>

\* POST /delivered (status delivered) and POST /read (status read) up to the
\* await: 400 without msg_id, else findOneAndUpdate.
PostStatus(r, route, status) ==
    /\ Arrives(r)
    /\ \E body \in StatusBodies :
        LET i == FindForStatus(store, body)
        IN  \/ /\ body.msg_id = None
               /\ Respond(r, route, None, 400)
               /\ UNCHANGED store
            \/ /\ body.msg_id # None /\ i # 0
               /\ store' = SetStatus(store, i, status)
               /\ reqs' = Await(r, route, "doc", body.msg_id, status)
               /\ UNCHANGED resp
            \/ /\ body.msg_id # None /\ i = 0
               /\ reqs' = Await(r, route, "null", body.msg_id, None)
               /\ UNCHANGED <<store, resp>>
    /\ used' = used + 1
    /\ UNCHANGED sink

\* The rest of a status route: 404 when nothing was updated, else io.emit
\* and 200; the catch answers 500 when io.emit throws.
PostStatusReply(r) ==
    /\ reqs[r].pc = "await" /\ reqs[r].route \in {"delivered", "read"}
    /\ \/ /\ reqs[r].out = "null"
          /\ Respond(r, reqs[r].route, "null", 404)
          /\ UNCHANGED sink
       \/ /\ reqs[r].out = "doc"
          /\ sink' = sink (+) SetToBag({[ev |-> "message:status", msg_id |-> reqs[r].msg_id,
                                          status |-> reqs[r].status]})
          /\ Respond(r, reqs[r].route, "doc", 200)
       \/ /\ reqs[r].out = "doc"
          /\ Respond(r, reqs[r].route, "doc", 500)
          /\ UNCHANGED sink
    /\ UNCHANGED <<store, used>>

ServerInit == [r \in 1..MaxRequests |-> Idle("new")]

\* ------------------------------------------- reading a payload and a time
\* What is read and what is made of it: a payload file that holds a webhook
\* envelope (payload) and what a script takes from it (picked); a raw
\* timestamp (rawTs) and the Date a script or route makes of it (date).
VARIABLES read

\* A change of an envelope: its field and the one item (the id of a message
\* or of a status) of the array of that name in its value.
Changes == [field : {"messages", "statuses"}, item : {"m1"}]

\* All sequences over S of length 1 to n.
SeqsUpTo(S, n) == UNION {[1..k -> S] : k \in 1..n}

\* Envelopes: entry[] of changes[], at the root of the file (entry) or under
\* metaData (metaData.entry).
Payloads ==
    [wrap : {"root", "metaData"},
     entry : SeqsUpTo(SeqsUpTo(Changes, MaxChanges), MaxEntries)]

\* The items of the changes cs whose field is f, in order.
RECURSIVE ItemsOf(_, _)
ItemsOf(cs, f) ==
    IF cs = <<>> THEN <<>>
    ELSE (IF Head(cs).field = f THEN <<Head(cs).item>> ELSE <<>>) \o ItemsOf(Tail(cs), f)

\* The changes of all the entries es, in order.
RECURSIVE Flatten(_)
Flatten(es) == IF es = <<>> THEN <<>> ELSE Head(es) \o Flatten(Tail(es))

\* processFile: the value of the first change of the first entry of
\* payload.entry, or the payload itself; its messages and statuses.
ProcessFilePicks(p) ==
    LET value == IF p.wrap = "root" THEN <<p.entry[1][1]>> ELSE <<>>
    IN  [by |-> "processFile",
         messages |-> ItemsOf(value, "messages"),
         statuses |-> ItemsOf(value, "statuses")]

\* importPayloads: the messages and statuses of every change of every entry
\* of data.metaData.entry.
ImportPicks(p) ==
    LET entries == IF p.wrap = "metaData" THEN p.entry ELSE <<>>
    IN  [by |-> "import",
         messages |-> ItemsOf(Flatten(entries), "messages"),
         statuses |-> ItemsOf(Flatten(entries), "statuses")]

\* Raw timestamps of the instant TsSec: a number n (of seconds, of
\* milliseconds) or an ISO-8601 string that denotes the millisecond n; ms is
\* the instant meant, in milliseconds.
RawTimestamps ==
    {[form |-> "number", n |-> TsSec, ms |-> TsSec * 1000],
     [form |-> "number", n |-> TsSec * 1000, ms |-> TsSec * 1000],
     [form |-> "iso", n |-> TsSec * 1000, ms |-> TsSec * 1000]}

\* An Invalid Date.
InvalidDate == -1

\* asDate of a raw timestamp: Number(ts) of an ISO string is NaN, and the
\* string goes to new Date(ts).
asDateOf(raw) == IF raw.form = "iso" THEN raw.n ELSE asDate(raw.n)

\* importPayloads: new Date(Number(msg.timestamp) * 1000).
ImportDate(raw) == IF raw.form = "iso" THEN InvalidDate ELSE raw.n * 1000

\* POST /messages: new Date(timestamp), a number being milliseconds.
PostDate(raw) == raw.n

NoPayload == [wrap |-> "root", entry |-> <<>>]
NoPick == [by |-> "none", messages |-> <<>>, statuses |-> <<>>]
NoTimestamp == [form |-> "number", n |-> 0, ms |-> Now]
NoDate == [by |-> "none", at |-> 0]

\* processFile reads the payload.
ReadByProcessFile ==
    /\ read.picked.by = "none"
    /\ read' = [read EXCEPT !.picked = ProcessFilePicks(read.payload)]

\* importPayloads reads the payload.
ReadByImport ==
    /\ read.picked.by = "none"
    /\ read' = [read EXCEPT !.picked = ImportPicks(read.payload)]

\* upsertMessage, importPayloads, POST /messages make the Date.
DateByAsDate ==
    /\ read.date.by = "none"
    /\ read' = [read EXCEPT !.date = [by |-> "asDate", at |-> asDateOf(read.rawTs)]]

DateByImport ==
    /\ read.date.by = "none"
    /\ read' = [read EXCEPT !.date = [by |-> "import", at |-> ImportDate(read.rawTs)]]

DateByPost ==
    /\ read.date.by = "none"
    /\ read' = [read EXCEPT !.date = [by |-> "post", at |-> PostDate(read.rawTs)]]

vars == <<store, used, bat, imp, reqs, resp, sink, read>>

\* The collection is empty, no script has started, no request has arrived.
InitStore ==
    /\ store = <<>>
    /\ used = 0
    /\ bat = BatchInit
    /\ imp = ImportInit
    /\ reqs = ServerInit
    /\ resp = 0
    /\ sink = EmptyBag

Init ==
    /\ InitStore
    /\ read = [payload |-> NoPayload, picked |-> NoPick,
               rawTs |-> NoTimestamp, date |-> NoDate]

\* A step of the batch script, of the legacy script, of the server.
OfBatch(A) == A /\ UNCHANGED <<imp, reqs, resp, sink, read>>
OfImport(A) == A /\ UNCHANGED <<bat, reqs, resp, sink, read>>
OfServer(A) == A /\ UNCHANGED <<bat, imp, read>>

\* Reading one payload and one timestamp, each by one of the readers.
InitRead ==
    /\ InitStore
    /\ read \in [payload : Payloads, picked : {NoPick},
                 rawTs : RawTimestamps, date : {NoDate}]

OfRead(A) == A /\ UNCHANGED <<store, used, bat, imp, reqs, resp, sink>>

NextRead ==
    \/ OfRead(ReadByProcessFile)
    \/ OfRead(ReadByImport)
    \/ OfRead(DateByAsDate)
    \/ OfRead(DateByImport)
    \/ OfRead(DateByPost)

SpecRead == InitRead /\ [][NextRead]_vars

\* The steps of the batch script, of the server, of the legacy script.
BatchSteps ==
    \/ OfBatch(BatchConnect)
    \/ OfBatch(BatchReaddir)
    \/ OfBatch(BatchProcessFile)
    \/ OfBatch(BatchUpsertMessage)
    \/ OfBatch(BatchUpsertInsert)
    \/ OfBatch(BatchApplyStatus)
    \/ OfBatch(BatchApplyStatusFallback)
    \/ OfBatch(BatchDisconnect)

ServerSteps ==
    \/ \E r \in 1..MaxRequests : OfServer(PostMessages(r))
    \/ \E r \in 1..MaxRequests : OfServer(PostMessagesReply(r))
    \/ \E r \in 1..MaxRequests : OfServer(PostStatus(r, "delivered", "delivered"))
    \/ \E r \in 1..MaxRequests : OfServer(PostStatus(r, "read", "read"))
    \/ \E r \in 1..MaxRequests : OfServer(PostStatusReply(r))

ImportSteps ==
    \/ OfImport(ImportConnect)
    \/ OfImport(ImportFile)
    \/ OfImport(ImportUpsert)
    \/ OfImport(ImportUpsertInsert)
    \/ OfImport(ImportStatus)
    \/ OfImport(ImportDisconnect)

\* The batch script and the server.
Next ==
    \/ BatchSteps
    \/ ServerSteps

Spec == Init /\ [][Next]_vars

\* The two scripts and the server.
NextAll ==
    \/ Next
    \/ ImportSteps

SpecAll == Init /\ [][NextAll]_vars

\* The two scripts, each going on while it can: the promise a script awaits
\* settles and its continuation runs.
NextScripts ==
    \/ BatchSteps
    \/ ImportSteps

FairSpecScripts ==
    Init /\ [][NextScripts]_vars /\ WF_vars(BatchSteps) /\ WF_vars(ImportSteps)

\* ------------------------------------------------------------ properties
\* The msg_ids of the stored documents.
Ids(st) == {st[i].msg_id : i \in 1..Len(st)}

\* How many stored documents have this msg_id.
Count(st, id) == Cardinality({i \in 1..Len(st) : st[i].msg_id = id})

\* The content fields of a document: all but status.
Content(d) == <<d.wa_id, d.msg_id, d.meta_msg_id, d.text, d.timestamp, d.profileName, d.fromSelf>>

\* The batch script has an insert for this msg_id in hand.
Inserting(id) == bat.pc = "insert" /\ bat.cur.msg_id = id

\* No stored document has the value v in field f.
NoRecord(st, f, v) == \A i \in 1..Len(st) : st[i][f] # v

\* A step of upsertMessage.
UpsertStep == (\E m \in RawMessages : BatchUpsertMessageOf(m)) \/ BatchUpsertInsert

\* C1: Idempotence.  Every valid message the batch script has passed through
\* upsertMessage, however often, has exactly one stored document with its
\* msg_id (once its insert is no longer in hand), and no step of
\* upsertMessage removes a document or changes a content field of a
\* document that exists: an ingestion after the first changes status at most.
C1_Idempotence ==
    /\ [](\A id \in bat.want : Inserting(id) \/ Count(store, id) = 1)
    /\ [][UpsertStep =>
            /\ Len(store') >= Len(store)
            /\ \A i \in 1..Len(store) : Content(store'[i]) = Content(store[i])]_vars

\* C1 happens: the one document of m1 was inserted by upsertMessage (its
\* timestamp is the webhook's) and a later upsertMessage of m1 has updated it.
C1_Witness ==
    /\ bat.did = "update" /\ bat.want = {"m1"}
    /\ Len(store) = 1 /\ store[1].msg_id = "m1" /\ store[1].timestamp = TsSec * 1000

\* C2: Uniqueness under concurrency.  In every state no two documents share
\* a msg_id, and a caller that is through with a msg_id (a create that gave
\* a document, an upsertMessage that returned or failed on the unique index)
\* leaves exactly one document with it.
C2_Uniqueness ==
    /\ \A id \in Ids(store) : Count(store, id) = 1
    /\ \A r \in 1..MaxRequests :
          reqs[r].pc = "await" /\ reqs[r].route = "messages" /\ reqs[r].out = "doc"
             => Count(store, reqs[r].msg_id) = 1
    /\ bat.did \in {"insert", "update", "E11000"}
          => \A id \in bat.want : Inserting(id) \/ Count(store, id) = 1

\* C2 happens: an upsert of m1 that found no document lost the race for the
\* insert to a create of m1, and one document of m1 is stored.
C2_Witness ==
    /\ bat.did = "E11000" /\ "m1" \in bat.want
    /\ Count(store, "m1") = 1

\* C3, as the specification states it: every stored document has a wa_id and
\* a msg_id.
C3_NoInvalidStored ==
    \A i \in 1..Len(store) : store[i].wa_id # None /\ store[i].msg_id # None

\* C4, as the specification states it: a raw message carries no status, so
\* upsertMessage of a message leaves the stored documents as they are.
C4_NoStatusNoChange ==
    [][\A m \in RawMessages : BatchUpsertMessageOf(m) => store' = store]_vars

C7_BatchIsolation ==
    /\ bat.pc = "done" => bat.ok \cup bat.failed = 1..bat.files
    /\ imp.pc = "done" => imp.idx = imp.files

\* C8: Missing required field.  A message without id is dropped by
\* upsertMessage: the store is as it was, the file has not failed and the
\* loop goes on; no document without msg_id is ever stored; and every valid
\* message of a file that processFile has finished, and of the file in
\* hand so far, is stored.
C8_MissingMessageId ==
    /\ [][\A m \in RawMessages :
            (BatchUpsertMessageOf(m) /\ m.id = None)
            => /\ store' = store
               /\ bat'.did = "skip" /\ bat'.failed = bat.failed
               /\ bat'.want = bat.want
               /\ (bat'.pc = "run" /\ bat'.nm = bat.nm - 1) \/ bat.idx \in bat'.ok]_vars
    /\ [](NoRecord(store, "msg_id", None))
    /\ [](bat.okIds \subseteq Ids(store))
    /\ [](\A id \in bat.want : Inserting(id) \/ id \in Ids(store))

\* C8 happens: the one file held m1 or m2, then a message without id, then
\* the other; processFile has finished it and both are stored.
C8_Witness ==
    /\ bat.pc = "finally" /\ bat.files = 1 /\ bat.ok = {1}
    /\ bat.pat = 3 /\ bat.okIds = {"m1", "m2"}
    /\ Ids(store) = {"m1", "m2"}

\* C9, as the specification states it: a handler whose store command gave a
\* document answers with success (201 for a create, 200 for a status).
C9_NotifyFailureNoFailure ==
    [][\A r \in 1..MaxRequests :
         /\ (PostMessagesReply(r) /\ reqs[r].out = "doc") => resp' = 201
         /\ (PostStatusReply(r) /\ reqs[r].out = "doc") => resp' = 200]_vars

\* The event io.emit hands over for the request q.
Event(q) ==
    [ev |-> IF q.route = "messages" THEN "message:new" ELSE "message:status",
     msg_id |-> q.msg_id, status |-> q.status]

\* C10: Notifications at most once per successful mutation.  The sink
\* changes only by one event of one handler whose store command gave a
\* document, which thereby ends; and a handler comes to hold a document only
\* in the step that stored or matched a document with the msg_id and status
\* of its event.
C10_AtMostOnce ==
    /\ [][sink' # sink =>
            \E r \in 1..MaxRequests :
               /\ reqs[r].pc = "await" /\ reqs[r].out = "doc"
               /\ reqs'[r].pc = "done"
               /\ sink' = sink (+) SetToBag({Event(reqs[r])})
               /\ reqs[r].msg_id \in Ids(store)]_vars
    /\ [][\A r \in 1..MaxRequests :
            (reqs'[r].pc = "await" /\ reqs'[r].out = "doc" /\ reqs[r].pc # "await")
            => \E i \in 1..Len(store') :
                  /\ store'[i].msg_id = reqs'[r].msg_id
                  /\ store'[i].status = reqs'[r].status
                  /\ i > Len(store) \/ reqs'[r].route # "messages"]_vars

\* C10 happens: a create of m1 and a read of m1 have each published their
\* event, and nothing else has been published.
C10_Witness ==
    /\ BagToSet(sink) = {[ev |-> "message:new", msg_id |-> "m1", status |-> "sent"],
                         [ev |-> "message:status", msg_id |-> "m1", status |-> "read"]}
    /\ BagCardinality(sink) = 2

\* C11, as the specification states it: what a script takes from an envelope
\* it finds where it looks for one (processFile at the root, importPayloads
\* under metaData) is the messages of every change whose field is messages and the statuses
\* of every change whose field is statuses, of every entry.
C11_AllChangesIngested ==
    (\/ read.picked.by = "processFile" /\ read.payload.wrap = "root"
     \/ read.picked.by = "import" /\ read.payload.wrap = "metaData") =>
       /\ read.picked.messages = ItemsOf(Flatten(read.payload.entry), "messages")
       /\ read.picked.statuses = ItemsOf(Flatten(read.payload.entry), "statuses")

\* C12, as the specification states it: the Date made of a raw timestamp, in
\* seconds, in milliseconds or as an ISO-8601 string, is the instant meant.
C12_SameInstant ==
    read.date.by # "none" => read.date.at = read.rawTs.ms

\* What holds of asDate alone: the three forms give the instant meant.
AsDateSameInstant ==
    read.date.by = "asDate" => read.date.at = read.rawTs.ms

\* C13, as the specification states it: no step removes a document or
\* changes a content field of a document; only status changes.
C13_ContentFixed ==
    [][\A i \in 1..Len(store) :
          i <= Len(store') /\ Content(store'[i]) = Content(store[i])]_vars

\* The document a lookup of v in field f updates is i: the first with it.
IsFirst(st, i, f, v) == st[i][f] = v /\ \A j \in 1..(i - 1) : st[j][f] # v

\* C14: Last-write-wins status.  The document that applyStatus matches, by
\* msg_id or by meta_msg_id, and the document that POST /delivered or POST
\* /read matches, has the input status right after the step, whatever its
\* status was.
C14_LastWriteWins ==
    /\ [][\A s \in RawStatuses : \A i \in 1..Len(store) :
            (/\ BatchApplyStatusOf(s) /\ s.status # None
             /\ IsFirst(store, i, "msg_id", StatusArgs(s).id))
            => store'[i].status = s.status]_vars
    /\ [][\A i \in 1..Len(store) :
            (/\ BatchApplyStatusFallback /\ bat.cur.status # None
             /\ IsFirst(store, i, "meta_msg_id", bat.cur.metaMsgId))
            => store'[i].status = bat.cur.status]_vars
    /\ [][\A r \in 1..MaxRequests : \A status \in {"delivered", "read"} :
            (PostStatus(r, status, status) /\ reqs'[r].out = "doc")
            => \E i \in 1..Len(store) :
                  /\ store[i].msg_id = reqs'[r].msg_id
                  /\ store'[i].status = status]_vars

\* C14 happens: a read of m1 was applied and announced, and a status applied
\* by applyStatus after it has left m1 delivered.
C14_Witness ==
    /\ bat.did = "msg_id"
    /\ sink = SetToBag({[ev |-> "message:status", msg_id |-> "m1", status |-> "read"]})
    /\ \E i \in 1..Len(store) : store[i].msg_id = "m1" /\ store[i].status = "delivered"

\* C15, as the specification states it: a document that enters the store has
\* the status sent.
C15_CreatedAsSent ==
    [][Len(store') > Len(store) => store'[Len(store')].status = "sent"]_vars

\* C16: Lookup precedence.  When a document has the msg_id of the status,
\* the first such is the only one the call changes, and the call does not go
\* on to the lookup by meta_msg_id; the call goes on to it only without
\* having changed the store; and no step of applyStatus changes more than
\* one document.
C16_LookupPrecedence ==
    /\ [][\A s \in RawStatuses : \A i \in 1..Len(store) :
            (BatchApplyStatusOf(s) /\ IsFirst(store, i, "msg_id", StatusArgs(s).id))
            => /\ bat'.pc # "fallback"
               /\ Len(store') = Len(store)
               /\ \A j \in 1..Len(store) : j # i => store'[j] = store[j]
               /\ s.status # None => store'[i].status = s.status]_vars
    /\ [][\A s \in RawStatuses :
            (BatchApplyStatusOf(s) /\ bat'.pc = "fallback") => store' = store]_vars
    /\ [][((\E s \in RawStatuses : BatchApplyStatusOf(s)) \/ BatchApplyStatusFallback)
            => /\ Len(store') = Len(store)
               /\ Cardinality({j \in 1..Len(store) : store'[j] # store[j]}) <= 1]_vars

\* C16 happens: one document has msg_id m2 and another only meta_msg_id m2;
\* applyStatus matched by msg_id, the first has the status failed, which
\* only a status with id m2 brings, and the other has not.
C16_Witness ==
    /\ bat.did = "msg_id"
    /\ \E i, j \in 1..Len(store) :
          /\ store[i].msg_id = "m2" /\ store[i].status = "failed"
          /\ store[j].msg_id # "m2" /\ store[j].meta_msg_id = "m2"
          /\ store[j].status # "failed"

\* The outcomes of applyStatus.
StatusOutcomes == {"drop", "msg_id", "meta_msg_id", "nomatch"}

\* C17: Ordering within a source.  A status of a file is applied only when
\* no message of the file remains, and no message is upserted after a status
\* of the same file; a status whose id is that of a valid message of the
\* same file finds a document with it, which then has the status of the
\* event.  In importPayloads too a status is applied only when no message
\* of the file remains.
C17_MessagesBeforeStatuses ==
    /\ [][\A s \in RawStatuses :
            BatchApplyStatusOf(s)
            => /\ bat.nm = 0
               /\ (s.status # None /\ s.id \in bat.want)
                  => \E i \in 1..Len(store) :
                        store'[i].msg_id = s.id /\ store'[i].status = s.status]_vars
    /\ [][UpsertStep => bat.did \notin StatusOutcomes]_vars
    /\ [][\A st \in LegacyStatuses : ImportStatusOf(st) => imp.nm = 0]_vars

\* C17 happens: the one file held the message m2 and a status failed for
\* m2; the status found the document, which has the status failed.
C17_Witness ==
    /\ bat.files = 1 /\ bat.want = {"m2"} /\ bat.did = "msg_id"
    /\ \E i \in 1..Len(store) : store[i].msg_id = "m2" /\ store[i].status = "failed"

\* C18, as the specification states it for the batch path: when the batch
\* script has ended, an event has been published for every message of the
\* files it has processed.
C18_BatchAnnounces ==
    bat.pc = "done" =>
       \A id \in bat.okIds : \E e \in BagToSet(sink) : e.msg_id = id

\* C19, as the specification states it: the status of every stored document
\* is one of sent, delivered, read.
C19_StatusDomain ==
    \A i \in 1..Len(store) : store[i].status \in StatusEnum

\* C20: Batch termination and store release.  Each script holds the
\* connection from its connect to its end and no longer, does nothing once
\* it has ended, and once connected comes to its end.
C20_TerminatesAndReleases ==
    /\ [](bat.conn <=> bat.pc \notin {"start", "done"})
    /\ [](imp.conn <=> imp.pc \notin {"start", "done"})
    /\ [][bat.pc = "done" => bat' = bat]_vars
    /\ [][imp.pc = "done" => imp' = imp]_vars
    /\ bat.conn ~> (bat.pc = "done" /\ ~bat.conn)
    /\ imp.conn ~> (imp.pc = "done" /\ ~imp.conn)

\* C20 happens: the batch script has ended with every file failed, the
\* legacy script has ended on an error, and both connections are closed.
C20_Witness ==
    /\ bat.pc = "done" /\ ~bat.conn
    /\ bat.files > 0 /\ bat.failed = 1..bat.files
    /\ imp.pc = "done" /\ imp.aborted /\ ~imp.conn

====
